---- MODULE Spec2Model ----
(***************************************************************************)
(* gqlgen-contrib: the opencensus tracing interceptor (gqlopencensus) and  *)
(* the opencensus metrics collector (gqlopencensus-metrics).               *)
(*                                                                         *)
(* Go strings are TLA+ strings (Len, \o and SubSeq act on them).  A Go     *)
(* pointer is a sequence of length 0 (nil) or 1.  A nil error is "".       *)
(* Times are whole milliseconds.                                           *)
(***************************************************************************)
EXTENDS Integers, Sequences, FiniteSets, Bags, TLC

VARIABLES
    tr,        \* the Tracer (its config)
    m,         \* the Collector (its config and the two taggers)
    registry,  \* opencensus view registry: names of the registered views, in order
    viewData,  \* rows of every registered view: a bag of tag rows
    call,      \* the interception in hand: hook, inputs, value returned to the host
    log,       \* what that interception did, in order
    hist,      \* InterceptResponse calls recorded since the views were registered
    regHist    \* the registry operations so far, each with the registry before it

vars == <<tr, m, registry, viewData, call, log, hist, regHist>>

\* ---------------------------------------------------------------- bounds

MaxPathLen == 3
MaxCalls == 2

\* ---------------------------------------------------------------- strings

\* strings.HasPrefix
HasPrefix(s, prefix) ==
    /\ Len(s) >= Len(prefix)
    /\ SubSeq(s, 1, Len(prefix)) = prefix

Digit(d) == CASE d = 0 -> "0" [] d = 1 -> "1" [] d = 2 -> "2" [] d = 3 -> "3"
              [] d = 4 -> "4" [] d = 5 -> "5" [] d = 6 -> "6" [] d = 7 -> "7"
              [] d = 8 -> "8" [] d = 9 -> "9"

\* fmt.Sprintf("%d", n) for n >= 0
RECURSIVE Itoa(_)
Itoa(n) == IF n < 10 THEN Digit(n) ELSE Itoa(n \div 10) \o Digit(n % 10)

\* ast.Path.String(): a name is preceded by "." unless it is first; an index is "[i]"
RECURSIVE PathStringFrom(_, _)
PathStringFrom(path, i) ==
    IF i > Len(path) THEN ""
    ELSE (IF "index" \in DOMAIN path[i]
            THEN "[" \o Itoa(path[i].index) \o "]"
            ELSE (IF i # 1 THEN "." ELSE "") \o path[i].name)
         \o PathStringFrom(path, i + 1)

PathString(path) == PathStringFrom(path, 1)

\* gqlerror.Error.Error() of one error of a response (nil pointer: "")
ErrorString(e) == IF e = <<>> THEN "" ELSE "input: " \o e[1]

\* gqlerror.List.Error(): every error followed by a newline
RECURSIVE ListError(_)
ListError(errs) ==
    IF errs = <<>> THEN "" ELSE ErrorString(Head(errs)) \o "\n" \o ListError(Tail(errs))

\* ---------------------------------------------------------------- tags, measures, views

TagHost == "gql.host"
TagOperation == "gql.operation"
TagField == "gql.field"
TagPath == "gql.path"

\* stats.Int64 / stats.Float64: a measure is identified by its name
ServerRequestCount == [sym |-> "ServerRequestCount", name |-> "gql/server/request_count"]
ServerFieldCount == [sym |-> "ServerFieldCount", name |-> "gql/server/field_count"]
ServerErrorCount == [sym |-> "ServerErrorCount", name |-> "gql/server/request_count"]
ServerLatency == [sym |-> "ServerLatency", name |-> "gql/server/latency"]
ServerFieldLatency == [sym |-> "ServerFieldLatency", name |-> "gql/server/field_latency"]
ServerParsing == [sym |-> "ServerParsing", name |-> "gql/server/parsing_validation"]

\* Measure.M(v)
M(measure, v) == [sym |-> measure.sym, name |-> measure.name, v |-> v]

OperationCountView ==
    [Name |-> "gql/server/operation_count", Measure |-> ServerRequestCount.name,
     Aggregation |-> "count", TagKeys |-> <<TagHost, TagOperation>>]
FieldCountView ==
    [Name |-> "gql/server/field_count", Measure |-> ServerFieldCount.name,
     Aggregation |-> "count", TagKeys |-> <<TagHost, TagField, TagPath>>]
OperationErrorsView ==
    [Name |-> "gql/server/error_count", Measure |-> ServerErrorCount.name,
     Aggregation |-> "count", TagKeys |-> <<TagHost, TagOperation>>]
OperationLatencyView ==
    [Name |-> "gql/server/latency", Measure |-> ServerLatency.name,
     Aggregation |-> "distribution", TagKeys |-> <<TagHost, TagOperation>>]
FieldLatencyView ==
    [Name |-> "gql/server/field_latency", Measure |-> ServerFieldLatency.name,
     Aggregation |-> "distribution", TagKeys |-> <<TagHost, TagField, TagPath>>]
OperationParsingView ==
    [Name |-> "gql/server/parsing_validation", Measure |-> ServerParsing.name,
     Aggregation |-> "distribution", TagKeys |-> <<TagHost, TagOperation>>]

GQLViews == <<OperationCountView, FieldCountView, OperationErrorsView,
              OperationLatencyView, FieldLatencyView, OperationParsingView>>

\* a view the host application registers on its own
AppView ==
    [Name |-> "app/requests", Measure |-> "app/requests",
     Aggregation |-> "count", TagKeys |-> <<TagHost>>]

KnownViews == {GQLViews[i] : i \in 1..Len(GQLViews)} \cup {AppView}

ViewNamed(name) == CHOOSE v \in KnownViews : v.Name = name

\* ---------------------------------------------------------------- opencensus backend

NonPrintable == {"\t", "\n"}

\* tag.checkValue: a tag value is printable ASCII
ValidTagValue(v) == \A i \in 1..Len(v) : SubSeq(v, i, i) \notin NonPrintable

\* tag.Upsert(key, value)
Upsert(k, v) == [key |-> k, value |-> v]

\* tag.New(ctx, mutators...): the mutators applied in order to an empty tag map
RECURSIVE TagMapFrom(_, _)
TagMapFrom(tm, muts) ==
    IF muts = <<>> THEN tm
    ELSE TagMapFrom([k \in DOMAIN tm \cup {Head(muts).key} |->
                        IF k = Head(muts).key THEN Head(muts).value ELSE tm[k]],
                    Tail(muts))

TagMap(muts) == TagMapFrom([k \in {} |-> ""], muts)
ValidTags(muts) == \A i \in 1..Len(muts) : ValidTagValue(muts[i].value)

\* the row of a view a tag map falls in: the view's tag keys that the map sets
Row(view, tm) ==
    [k \in {view.TagKeys[i] : i \in 1..Len(view.TagKeys)} \cap DOMAIN tm |-> tm[k]]

Registered(reg, name) == \E i \in 1..Len(reg) : reg[i] = name

\* view.Register of one view: a name already registered is not registered again
viewRegister(reg, v) == IF Registered(reg, v.Name) THEN reg ELSE Append(reg, v.Name)

\* view.Unregister of one view: the view of that name is removed
viewUnregister(reg, v) == SelectSeq(reg, LAMBDA n : n # v.Name)

RECURSIVE RegisterAll(_, _)
RegisterAll(reg, views) ==
    IF views = <<>> THEN reg ELSE RegisterAll(viewRegister(reg, Head(views)), Tail(views))

RECURSIVE UnregisterAll(_, _)
UnregisterAll(reg, views) ==
    IF views = <<>> THEN reg ELSE UnregisterAll(viewUnregister(reg, Head(views)), Tail(views))

\* the rows kept for a registry: those of the views still registered, none for a new view
DataFor(reg, data) ==
    [n \in {reg[i] : i \in 1..Len(reg)} |-> IF n \in DOMAIN data THEN data[n] ELSE EmptyBag]

\* stats.RecordWithTags seen from the caller: the call, and whether it returned an error
RecordWithTags(muts, ms) ==
    [ev |-> "Record", tags |-> muts, ms |-> ms, err |-> ~ValidTags(muts)]

\* stats.RecordWithTags seen from the views: every view on the measurement's measure
\* (measures are looked up by name) gets one sample in the row of the tags
RecordOne(data, muts, ms) ==
    [n \in DOMAIN data |->
        LET v == ViewNamed(n)
            hits == Cardinality({i \in 1..Len(ms) : ms[i].name = v.Measure})
            row == Row(v, TagMap(muts))
        IN  IF hits = 0 THEN data[n]
            ELSE data[n] (+) [r \in {row} |-> hits]]

RECURSIVE ApplyRecords(_, _)
ApplyRecords(data, events) ==
    IF events = <<>> THEN data
    ELSE LET e == Head(events)
         IN  ApplyRecords(IF e.ev = "Record" /\ ~e.err THEN RecordOne(data, e.tags, e.ms)
                          ELSE data,
                          Tail(events))

\* how many samples a view holds in the row of these tags (0 when not registered)
ViewCount(data, view, muts) ==
    IF view.Name \in DOMAIN data THEN CopiesIn(Row(view, TagMap(muts)), data[view.Name]) ELSE 0

\* ---------------------------------------------------------------- span events

SpanKindServer == "server"
StatusCodeUnknown == "Unknown"

StartSpan(name, kind) == [ev |-> "StartSpan", name |-> name, kind |-> kind]
AddAttributes(attrs) == [ev |-> "AddAttributes", attrs |-> attrs]
SetStatus(code, message) == [ev |-> "SetStatus", code |-> code, message |-> message]
SpanEnd == [ev |-> "End"]
NextCall == [ev |-> "next"]

\* ---------------------------------------------------------------- execution contexts

PathName(n) == [name |-> n]
PathIndex(i) == [index |-> i]

PathNames == {"__schema", "__schemas", "__type", "user", "types"}
PathElems == {PathName(n) : n \in PathNames} \cup {PathIndex(0), PathIndex(12)}

\* paths of up to n elements; a path starts with a name
PathsUpTo(n) ==
    {p \in UNION {[1..k -> PathElems] : k \in 1..n} : "name" \in DOMAIN p[1]}

\* graphql.FieldContext: Field.Name, IsMethod, and the path Path() yields
FieldContext(name, path, isMethod) == [Name |-> name, Path |-> path, IsMethod |-> isMethod]

\* the field contexts the interceptors are driven with
FieldContexts ==
    {FieldContext(f[1], f[2], b) :
        f \in {<<"user", <<PathName("user")>>>>,
               <<"name", <<PathName("user"), PathName("name")>>>>,
               <<"types", <<PathName("__schema"), PathName("types"), PathIndex(0)>>>>},
        b \in BOOLEAN}

\* the field contexts fieldTags is driven with
AllFieldContexts ==
    {FieldContext(n, p, TRUE) : n \in {"user", "types"}, p \in PathsUpTo(MaxPathLen)}

\* what a resolver returns: (res, err)
FieldResults ==
    {[res |-> "alice", err |-> ""], [res |-> "", err |-> "resolver failed"],
     [res |-> "partial", err |-> "deprecated"]}

\* ast.OperationDefinition: Name and Operation (the operation type)
Operations ==
    {[Name |-> "GetUser", Operation |-> "query"], [Name |-> "", Operation |-> "query"],
     [Name |-> "", Operation |-> "mutation"]}

\* graphql.OperationContext.Stats: Parsing.Start and Validation.End
StatsSet == {[ParsingStart |-> 0, ValidationEnd |-> 2], [ParsingStart |-> 1, ValidationEnd |-> 1]}

\* graphql.OperationContext: Operation (nil when nothing was parsed), OperationName, Stats
OperationContexts ==
    {[Operation |-> o, OperationName |-> n, Stats |-> st] :
        o \in {<<>>} \cup {<<x>> : x \in Operations},
        n \in {"", "test", "te\tst"},
        st \in StatsSet}

SmallOperationContexts ==
    {[Operation |-> o, OperationName |-> "test", Stats |-> [ParsingStart |-> 0, ValidationEnd |-> 2]] :
        o \in {<<>>, <<[Name |-> "GetUser", Operation |-> "query"]>>}}

\* graphql.Response (nil, or Data and Errors; an error of the list may be a nil pointer)
Response(data, errs) == <<[Data |-> data, Errors |-> errs]>>

Responses ==
    {<<>>, Response("{a:abc}", <<>>), Response("", <<<<"not found">>>>),
     Response("{a:null}", <<<<"not found">>, <<"denied">>>>), Response("", <<<<>>>>)}

SmallResponses == {<<>>, Response("{a:abc}", <<>>), Response("", <<<<"not found">>>>)}

\* ---------------------------------------------------------------- construction

\* gqlopencensus.New: the tracer with its options applied
NewTracer(onlyMethods) == [onlyMethods |-> onlyMethods]

\* metrics.New: an empty host becomes "-"; the field tagger is set only with fields enabled
New(host, fieldsEnabled) ==
    [host |-> IF host = "" THEN "-" ELSE host,
     fieldsEnabled |-> fieldsEnabled,
     fieldTagger |-> fieldsEnabled]

\* m.opTagger
opTagger(mc, opName) == <<Upsert(TagHost, mc.host), Upsert(TagOperation, opName)>>

\* m.fieldTagger
fieldTagger(mc, ft) ==
    <<Upsert(TagHost, mc.host), Upsert(TagField, ft[1]), Upsert(TagPath, ft[2])>>

\* ---------------------------------------------------------------- naming and tagging

\* metrics.operationName
operationNameRaw(ctx) == ctx.OperationName
operationName(ctx) ==
    LET n1 == IF ctx.Operation # <<>> THEN ctx.Operation[1].Name ELSE ""
        n2 == IF n1 = "" /\ ctx.Operation # <<>> THEN ctx.Operation[1].Operation ELSE n1
        n3 == IF n2 = "" THEN ctx.OperationName ELSE n2
    IN  n3

\* gqlopencensus.operationName: the same rule, in the tracing package
tracerOperationName(ctx) ==
    IF ctx.Operation # <<>> /\ ctx.Operation[1].Name # "" THEN ctx.Operation[1].Name
    ELSE IF ctx.Operation # <<>> THEN ctx.Operation[1].Operation
         ELSE ctx.OperationName

\* metrics.fieldTags
fieldTagsExact(ctx) ==
    LET pth == PathString(ctx.Path)
    IN  IF pth = "__schema" THEN <<"[introspection]", "__schema">> ELSE <<ctx.Name, pth>>
fieldTags(ctx) ==
    LET pth == PathString(ctx.Path)
    IN  IF HasPrefix(pth, "__schema") THEN <<"[introspection]", "__schema">>
        ELSE <<ctx.Name, pth>>

\* tr.config.fieldAttributes / tr.config.operationAttributes: attributes of the context
fieldAttributes(fc) == [of |-> "field", path |-> PathString(fc.Path), name |-> fc.Name]
operationAttributes(oc) == [of |-> "operation", name |-> oc.OperationName]

\* ---------------------------------------------------------------- the interceptors
\* Each yields what the call did, in order (a deferred call runs last), and what it
\* returned.  next is the value the wrapped call returns.

\* span.End() on the success path only, instead of deferred
Tracer_InterceptFieldEndOnSuccess(t, fc, next) ==
    IF t.onlyMethods /\ ~fc.IsMethod
      THEN [log |-> <<NextCall>>, ret |-> next]
      ELSE [log |-> <<StartSpan(PathString(fc.Path), SpanKindServer),
                      AddAttributes(fieldAttributes(fc)),
                      NextCall>>
                    \o (IF next.err = "" THEN <<SpanEnd>> ELSE <<>>),
            ret |-> next]

\* Tracer.InterceptField
Tracer_InterceptField(t, fc, next) ==
    IF t.onlyMethods /\ ~fc.IsMethod
      THEN [log |-> <<NextCall>>, ret |-> next]
      ELSE [log |-> <<StartSpan(PathString(fc.Path), SpanKindServer),
                      AddAttributes(fieldAttributes(fc)),
                      NextCall,
                      SpanEnd>>,
            ret |-> next]

\* span.End() called right after the wrapped call instead of deferred
Tracer_InterceptResponseEndEarly(t, oc, next) ==
    LET opened == <<StartSpan(tracerOperationName(oc), SpanKindServer),
                    AddAttributes(operationAttributes(oc)),
                    NextCall,
                    SpanEnd>>
    IN  IF next = <<>>
          THEN [log |-> opened, ret |-> <<>>]
          ELSE [log |-> opened
                        \o (IF Len(next[1].Errors) > 0
                              THEN <<SetStatus(StatusCodeUnknown, ListError(next[1].Errors))>>
                              ELSE <<>>),
                ret |-> next]

\* a response with errors answered by nil
Tracer_InterceptResponseDropsErrors(t, oc, next) ==
    LET opened == <<StartSpan(tracerOperationName(oc), SpanKindServer),
                    AddAttributes(operationAttributes(oc)),
                    NextCall>>
    IN  IF next = <<>>
          THEN [log |-> opened \o <<SpanEnd>>, ret |-> <<>>]
        ELSE IF Len(next[1].Errors) > 0
          THEN [log |-> opened
                        \o <<SetStatus(StatusCodeUnknown, ListError(next[1].Errors)), SpanEnd>>,
                ret |-> <<>>]
        ELSE [log |-> opened \o <<SpanEnd>>, ret |-> next]

\* Tracer.InterceptResponse
Tracer_InterceptResponse(t, oc, next) ==
    LET opened == <<StartSpan(tracerOperationName(oc), SpanKindServer),
                    AddAttributes(operationAttributes(oc)),
                    NextCall>>
    IN  IF next = <<>>
          THEN [log |-> opened \o <<SpanEnd>>, ret |-> <<>>]
          ELSE [log |-> opened
                        \o (IF Len(next[1].Errors) > 0
                              THEN <<SetStatus(StatusCodeUnknown, ListError(next[1].Errors))>>
                              ELSE <<>>)
                        \o <<SpanEnd>>,
                ret |-> next]

\* the IsMethod check left out
Collector_InterceptFieldAllFields(mc, fc, next, start, end) ==
    IF ~mc.fieldsEnabled
      THEN [log |-> <<NextCall>>, ret |-> next]
    ELSE [log |-> <<NextCall,
                    RecordWithTags(fieldTagger(mc, fieldTags(fc)),
                                   <<M(ServerFieldCount, 1),
                                     M(ServerFieldLatency, end - start)>>)>>,
          ret |-> next]

\* Collector.InterceptField; start and end are the two readings of graphql.Now()
Collector_InterceptField(mc, fc, next, start, end) ==
    IF ~mc.fieldsEnabled
      THEN [log |-> <<NextCall>>, ret |-> next]
    ELSE IF ~fc.IsMethod
      THEN [log |-> <<NextCall>>, ret |-> next]
    ELSE [log |-> <<NextCall,
                    RecordWithTags(fieldTagger(mc, fieldTags(fc)),
                                   <<M(ServerFieldCount, 1),
                                     M(ServerFieldLatency, end - start)>>)>>,
          ret |-> next]

\* the nil check made before the operation measurements are recorded
Collector_InterceptResponseNilFirst(mc, rc, next, end) ==
    LET opName == operationName(rc)
        batch == RecordWithTags(opTagger(mc, opName),
                                <<M(ServerRequestCount, 1),
                                  M(ServerParsing, rc.Stats.ValidationEnd - rc.Stats.ParsingStart),
                                  M(ServerLatency, end - rc.Stats.ValidationEnd)>>)
    IN  IF next = <<>>
          THEN [log |-> <<NextCall>>, ret |-> <<>>]
        ELSE IF ListError(next[1].Errors) # ""
          THEN [log |-> <<NextCall, batch,
                          RecordWithTags(opTagger(mc, opName), <<M(ServerErrorCount, 1)>>)>>,
                ret |-> next]
        ELSE [log |-> <<NextCall, batch>>, ret |-> next]

\* the error count recorded for every response, with or without errors
Collector_InterceptResponseAlwaysError(mc, rc, next, end) ==
    LET opName == operationName(rc)
        batch == RecordWithTags(opTagger(mc, opName),
                                <<M(ServerRequestCount, 1),
                                  M(ServerParsing, rc.Stats.ValidationEnd - rc.Stats.ParsingStart),
                                  M(ServerLatency, end - rc.Stats.ValidationEnd)>>)
    IN  IF next = <<>>
          THEN [log |-> <<NextCall, batch>>, ret |-> <<>>]
        ELSE [log |-> <<NextCall, batch,
                        RecordWithTags(opTagger(mc, opName), <<M(ServerErrorCount, 1)>>)>>,
              ret |-> next]

\* Collector.InterceptResponse; end is the reading of graphql.Now()
Collector_InterceptResponse(mc, rc, next, end) ==
    LET opName == operationName(rc)
        batch == RecordWithTags(opTagger(mc, opName),
                                <<M(ServerRequestCount, 1),
                                  M(ServerParsing, rc.Stats.ValidationEnd - rc.Stats.ParsingStart),
                                  M(ServerLatency, end - rc.Stats.ValidationEnd)>>)
    IN  IF next = <<>>
          THEN [log |-> <<NextCall, batch>>, ret |-> <<>>]
        ELSE IF ListError(next[1].Errors) # ""
          THEN [log |-> <<NextCall, batch,
                          RecordWithTags(opTagger(mc, opName), <<M(ServerErrorCount, 1)>>)>>,
                ret |-> next]
        ELSE [log |-> <<NextCall, batch>>, ret |-> next]

\* ---------------------------------------------------------------- actions

Call(comp, hook, cfg, ctx, next, ret) ==
    [comp |-> comp, hook |-> hook, cfg |-> cfg, ctx |-> ctx, next |-> next, ret |-> ret]

NoCall == Call("", "", <<>>, <<>>, <<>>, <<>>)

\* no interception is in hand
Idle == call = NoCall

ViewsRegistered == \A i \in 1..Len(GQLViews) : Registered(registry, GQLViews[i].Name)

TracerInterceptField(fc, next) ==
    LET out == Tracer_InterceptField(tr, fc, next)
    IN  /\ Idle
        /\ call' = Call("Tracer", "InterceptField", tr, fc, next, out.ret)
        /\ log' = out.log
        /\ UNCHANGED <<tr, m, registry, viewData, hist, regHist>>

TracerInterceptResponse(oc, next) ==
    LET out == Tracer_InterceptResponse(tr, oc, next)
    IN  /\ Idle
        /\ call' = Call("Tracer", "InterceptResponse", tr, oc, next, out.ret)
        /\ log' = out.log
        /\ UNCHANGED <<tr, m, registry, viewData, hist, regHist>>

CollectorInterceptField(fc, next, start, end) ==
    LET out == Collector_InterceptField(m, fc, next, start, end)
    IN  /\ Idle
        /\ ViewsRegistered => Len(hist) < MaxCalls
        /\ call' = Call("Collector", "InterceptField", m, fc, next, out.ret)
        /\ log' = out.log
        /\ viewData' = ApplyRecords(viewData, out.log)
        /\ hist' = IF ViewsRegistered
                     THEN Append(hist, [hook |-> "InterceptField", tags |-> <<>>, errors |-> FALSE])
                     ELSE hist
        /\ UNCHANGED <<tr, m, registry, regHist>>

CollectorInterceptResponse(rc, next, end) ==
    LET out == Collector_InterceptResponse(m, rc, next, end)
    IN  /\ Idle
        /\ ViewsRegistered => Len(hist) < MaxCalls
        /\ call' = Call("Collector", "InterceptResponse", m, rc, next, out.ret)
        /\ log' = out.log
        /\ viewData' = ApplyRecords(viewData, out.log)
        /\ hist' = IF ViewsRegistered
                     THEN Append(hist, [hook |-> "InterceptResponse",
                                        tags |-> opTagger(m, operationName(rc)),
                                        errors |-> next # <<>> /\ Len(next[1].Errors) > 0])
                     ELSE hist
        /\ UNCHANGED <<tr, m, registry, regHist>>

\* the registry operations remembered: the last three
Remember(h, op) ==
    LET all == Append(h, [op |-> op, before |-> registry])
    IN  IF Len(all) > 3 THEN Tail(all) ELSE all

\* metrics.Register
RegisterViews(reg) == RegisterAll(reg, GQLViews)

Register ==
    /\ registry' = RegisterViews(registry)
    /\ viewData' = DataFor(registry', viewData)
    /\ regHist' = Remember(regHist, "Register")
    /\ UNCHANGED <<tr, m, call, log, hist>>

\* metrics.Unregister
UnregisterTail(reg) == UnregisterAll(reg, Tail(GQLViews))
UnregisterViews(reg) == UnregisterAll(reg, GQLViews)

Unregister ==
    /\ registry' = UnregisterViews(registry)
    /\ viewData' = DataFor(registry', viewData)
    /\ regHist' = Remember(regHist, "Unregister")
    /\ hist' = <<>>
    /\ UNCHANGED <<tr, m, call, log>>

\* the interception in hand returns to the host engine
Return ==
    /\ ~Idle
    /\ call' = NoCall
    /\ log' = <<>>
    /\ UNCHANGED <<tr, m, registry, viewData, hist, regHist>>

\* fieldTags on its own
FieldTagsCall(fc) ==
    /\ Idle
    /\ call' = Call("Collector", "fieldTags", m, fc, <<>>, fieldTags(fc))
    /\ UNCHANGED <<tr, m, registry, viewData, log, hist, regHist>>

\* ---------------------------------------------------------------- specifications

Hosts == {"", "gql-1"}
Clock == {<<2, 2>>, <<2, 5>>}

InitOf(regs) ==
    /\ tr \in {NewTracer(b) : b \in BOOLEAN}
    /\ m \in {New(h, b) : h \in Hosts, b \in BOOLEAN}
    /\ registry \in regs
    /\ viewData = DataFor(registry, <<>>)
    /\ call = NoCall
    /\ log = <<>>
    /\ hist = <<>>
    /\ regHist = <<>>

\* the interceptors, driven by the host engine; no view is registered
Init == InitOf({<<>>})

Next ==
    \/ \E fc \in FieldContexts, r \in FieldResults : TracerInterceptField(fc, r)
    \/ \E oc \in OperationContexts, r \in Responses : TracerInterceptResponse(oc, r)
    \/ \E fc \in FieldContexts, r \in FieldResults, t \in Clock :
          CollectorInterceptField(fc, r, t[1], t[2])
    \/ \E oc \in OperationContexts, r \in Responses, t \in Clock :
          CollectorInterceptResponse(oc, r, t[2])
    \/ Return

Spec == Init /\ [][Next]_vars

\* the collector with the view registry
InitViews == InitOf({<<>>, <<AppView.Name>>})

NextViews ==
    \/ Register
    \/ Unregister
    \/ \E fc \in FieldContexts, r \in {[res |-> "alice", err |-> ""]} :
          CollectorInterceptField(fc, r, 2, 5)
    \/ \E oc \in SmallOperationContexts, r \in SmallResponses :
          CollectorInterceptResponse(oc, r, 5)
    \/ Return

SpecViews == InitViews /\ [][NextViews]_vars

\* fieldTags over every path
NextTags ==
    \/ \E fc \in AllFieldContexts : FieldTagsCall(fc)
    \/ Return

SpecTags == Init /\ [][NextTags]_vars

\* ---------------------------------------------------------------- properties

Intercepted == call.hook \in {"InterceptField", "InterceptResponse"}
IsCall(comp, hook) == call.comp = comp /\ call.hook = hook

CountEv(l, ev) == Cardinality({i \in 1..Len(l) : l[i].ev = ev})
RecordIdx(l) == {i \in 1..Len(l) : l[i].ev = "Record"}
Syms(e) == [i \in 1..Len(e.ms) |-> e.ms[i].sym]

\* how many measurements of a measure (by the variable the code names) a call submitted
CountSym(l, sym) ==
    Cardinality({<<i, j>> \in (1..Len(l)) \X (1..3) :
                    l[i].ev = "Record" /\ j <= Len(l[i].ms) /\ l[i].ms[j].sym = sym})

FieldBatch == <<"ServerFieldCount", "ServerFieldLatency">>
OperationBatch == <<"ServerRequestCount", "ServerParsing", "ServerLatency">>

HasErrors(resp) == resp # <<>> /\ Len(resp[1].Errors) >= 1

\* a field interception that is handed through: the tracer in only-method mode, the
\* collector always, on a field that is no resolver method; the collector with fields off
NotMethodBacked(c) ==
    /\ c.hook = "InterceptField"
    /\ ~c.ctx.IsMethod
    /\ (c.comp = "Tracer" => c.cfg.onlyMethods)

PassThrough(c) ==
    \/ NotMethodBacked(c)
    \/ c.hook = "InterceptField" /\ c.comp = "Collector" /\ ~c.cfg.fieldsEnabled

\* the precedence rule for the operation name
RuleName(oc) ==
    IF oc.Operation # <<>> /\ oc.Operation[1].Name # "" THEN oc.Operation[1].Name
    ELSE IF oc.Operation # <<>> THEN oc.Operation[1].Operation
    ELSE IF oc.OperationName # "" THEN oc.OperationName
    ELSE ""

\* C1: an interception that is not handed through starts and ends its span exactly once
\* (tracer) and submits its measurement batch exactly once (collector), whatever the
\* wrapped call returned.
C1_ExactlyOnce ==
    (Intercepted /\ ~PassThrough(call)) =>
        IF call.comp = "Tracer"
          THEN CountEv(log, "StartSpan") = 1 /\ CountEv(log, "End") = 1
          ELSE LET batch == IF call.hook = "InterceptField" THEN FieldBatch ELSE OperationBatch
               IN  /\ Cardinality({i \in RecordIdx(log) : Syms(log[i]) = batch}) = 1
                   /\ \A k \in 1..Len(batch) : CountSym(log, batch[k]) = 1

C1_Witness ==
    /\ IsCall("Tracer", "InterceptField") /\ ~PassThrough(call)
    /\ call.next.err # ""
    /\ CountEv(log, "End") = 1

\* C2: a field that is not method-backed, in only-method mode, gets no span and no
\* measurement; the wrapped call runs once and its result and error come back unchanged.
C2_PassThrough ==
    (Intercepted /\ NotMethodBacked(call)) =>
        /\ log = <<NextCall>>
        /\ call.ret = call.next

C2_Witness ==
    /\ IsCall("Collector", "InterceptField") /\ NotMethodBacked(call)
    /\ call.cfg.fieldsEnabled
    /\ call.next.err # ""
    /\ call.ret = call.next

\* C3: the operation tag of every measurement of an operation interception, and the
\* span name, is the name the precedence rule gives; with nothing parsed and
\* OperationName "test" the three operation measurements are tagged "test".
C3_OperationNameRule ==
    /\ IsCall("Collector", "InterceptResponse") =>
          /\ RecordIdx(log) # {}
          /\ \A i \in RecordIdx(log) :
                TagMap(log[i].tags)[TagOperation] = RuleName(call.ctx)
          /\ (call.ctx.Operation = <<>> /\ call.ctx.OperationName = "test") =>
                \E i \in RecordIdx(log) :
                    /\ Syms(log[i]) = OperationBatch
                    /\ TagMap(log[i].tags)[TagOperation] = "test"
    /\ IsCall("Tracer", "InterceptResponse") =>
          log[1] = StartSpan(RuleName(call.ctx), SpanKindServer)

C3_Witness ==
    /\ IsCall("Collector", "InterceptResponse")
    /\ call.ctx.Operation # <<>> /\ call.ctx.Operation[1].Name = ""
    /\ call.ctx.OperationName = "test"
    /\ TagMap(log[2].tags)[TagOperation] = "mutation"

\* C4: a path beginning with "__schema" is tagged "[introspection]" / "__schema"
\* whatever follows; any other path is tagged with the field's name and the full path.
BeginsWith(s, marker) ==
    /\ Len(s) >= Len(marker)
    /\ \A i \in 1..Len(marker) : SubSeq(s, i, i) = SubSeq(marker, i, i)

C4_FieldTags ==
    call.hook = "fieldTags" =>
        LET pth == PathString(call.ctx.Path)
        IN  IF BeginsWith(pth, "__schema")
              THEN call.ret = <<"[introspection]", "__schema">>
              ELSE call.ret = <<call.ctx.Name, pth>>

C4_Witness ==
    /\ call.hook = "fieldTags"
    /\ PathString(call.ctx.Path) = "__schema.types[12]"
    /\ call.ret = <<"[introspection]", "__schema">>

\* C5: a response with one or more errors gets exactly one error-count measurement,
\* tagged with the host and the operation's resolved name; a response without errors
\* gets none.
C5_ErrorCount ==
    IsCall("Collector", "InterceptResponse") =>
        IF HasErrors(call.next)
          THEN /\ CountSym(log, "ServerErrorCount") = 1
               /\ \E i \in RecordIdx(log) :
                     /\ Syms(log[i]) = <<"ServerErrorCount">>
                     /\ log[i].ms[1].v = 1
                     /\ TagMap(log[i].tags) =
                           (TagHost :> call.cfg.host @@ TagOperation :> RuleName(call.ctx))
          ELSE CountSym(log, "ServerErrorCount") = 0

C5_Witness ==
    /\ IsCall("Collector", "InterceptResponse")
    /\ call.next # <<>> /\ Len(call.next[1].Errors) = 2
    /\ CountSym(log, "ServerErrorCount") = 1

\* C6: a nil response: the tracer returns nil with the span ended and no status set;
\* the collector returns nil having submitted the three operation measurements and no
\* error count.
C6_NilResponse ==
    (call.hook = "InterceptResponse" /\ call.next = <<>>) =>
        /\ call.ret = <<>>
        /\ call.comp = "Tracer" =>
              /\ log[Len(log)] = SpanEnd
              /\ CountEv(log, "SetStatus") = 0
        /\ call.comp = "Collector" =>
              /\ \E i \in RecordIdx(log) : Syms(log[i]) = OperationBatch
              /\ CountSym(log, "ServerErrorCount") = 0

C6_Witness ==
    /\ IsCall("Collector", "InterceptResponse")
    /\ call.next = <<>>
    /\ call.ret = <<>>
    /\ Len(log) = 2

\* C8: every interception runs the wrapped call exactly once and returns exactly what
\* it returned, also when the recording call fails.
C8_Transparent ==
    Intercepted =>
        /\ CountEv(log, "next") = 1
        /\ call.ret = call.next

C8_Witness ==
    /\ IsCall("Collector", "InterceptResponse")
    /\ \E i \in RecordIdx(log) : log[i].err
    /\ HasErrors(call.next)
    /\ call.ret = call.next

\* C9: Tracer.InterceptResponse: span started, attributes attached, wrapped call, the
\* status set (only when the response has errors, with the concatenated message), span
\* ended; never a status after the end.
C9_TracerOrder ==
    IsCall("Tracer", "InterceptResponse") =>
        LET at(ev) == {i \in 1..Len(log) : log[i].ev = ev}
        IN  /\ at("StartSpan") = {1}
            /\ at("AddAttributes") = {2}
            /\ at("next") = {3}
            /\ at("End") = {Len(log)}
            /\ \A i \in at("SetStatus") : \A j \in at("End") : i < j
            /\ IF HasErrors(call.next)
                 THEN /\ at("SetStatus") = {4}
                      /\ log[4].code = StatusCodeUnknown
                      /\ log[4].message = ListError(call.next[1].Errors)
                      /\ Len(log) = 5
                 ELSE at("SetStatus") = {} /\ Len(log) = 4

C9_Witness ==
    /\ IsCall("Tracer", "InterceptResponse")
    /\ Len(log) = 5
    /\ log[4].ev = "SetStatus"
    /\ log[4].message = "input: not found\ninput: denied\n"

\* C7: with the views registered, the operation-count view counts, per (host, operation),
\* the interceptions with those tags, and the error-count view those whose response
\* carried errors.
InterceptionsWith(tags, onlyErrors) ==
    Cardinality({i \in 1..Len(hist) :
                    /\ hist[i].hook = "InterceptResponse"
                    /\ hist[i].tags = tags
                    /\ (onlyErrors => hist[i].errors)})

C7_ViewsCountInterceptions ==
    ViewsRegistered =>
        \A i \in 1..Len(hist) :
            hist[i].hook = "InterceptResponse" =>
                /\ ViewCount(viewData, OperationCountView, hist[i].tags)
                      = InterceptionsWith(hist[i].tags, FALSE)
                /\ ViewCount(viewData, OperationErrorsView, hist[i].tags)
                      = InterceptionsWith(hist[i].tags, TRUE)

\* C10: Register, Register, Unregister leaves none of the six views registered; the
\* registry never lists a name twice; Register then Unregister gives back the registry
\* as it was before the views were registered.
GQLNames == {GQLViews[i].Name : i \in 1..Len(GQLViews)}
Ops(h) == [i \in 1..Len(h) |-> h[i].op]
Without(reg, names) == SelectSeq(reg, LAMBDA n : n \notin names)

C10_RegisterTwiceUnregisterOnce ==
    /\ \A i, j \in 1..Len(registry) : registry[i] = registry[j] => i = j
    /\ DOMAIN viewData = {registry[i] : i \in 1..Len(registry)}
    /\ Ops(regHist) = <<"Register", "Register", "Unregister">> =>
          /\ \A n \in GQLNames : ~Registered(registry, n)
          /\ registry = Without(regHist[1].before, GQLNames)
    /\ \A k \in 1..(Len(regHist) - 1) :
          (/\ regHist[k].op = "Register"
           /\ regHist[k + 1].op = "Unregister"
           /\ k + 1 = Len(regHist)
           /\ \A n \in GQLNames : ~Registered(regHist[k].before, n)) =>
              registry = regHist[k].before

C10_Witness ==
    /\ Ops(regHist) = <<"Register", "Register", "Unregister">>
    /\ regHist[1].before = <<AppView.Name>>
    /\ regHist[2].before = <<AppView.Name>> \o [i \in 1..Len(GQLViews) |-> GQLViews[i].Name]
    /\ registry = <<AppView.Name>>

====
